---------------------------- MODULE Spec2Model ----------------------------
(***************************************************************************)
(* Model of the SHL assessment recommender: the constraint extractor, the  *)
(* three relevance strategies (LLM direct selection, embedding similarity, *)
(* keyword heuristic), the orchestrator get_recommendations and the query  *)
(* log written by save_query_and_recommendations.                          *)
(*                                                                         *)
(* Texts are TLA+ strings; Python's substring test, str.lower and the      *)
(* regular expressions are computed character by character.  Scores are    *)
(* fixed-point numbers in thousandths (0.2 is 200, 1.0 is 1000).           *)
(***************************************************************************)
EXTENDS Integers, Sequences, FiniteSets, TLC

(***************************************************************************)
(* Python values                                                           *)
(***************************************************************************)

\* Optional[int] None; every captured integer is >= 0 (\d+ has no sign)
None == -1

\* the value None stored under a key of a dict of strings
PyNone == "<None>"

\* fixed-point scale of scores: thousandths
Scale == 1000

Min(a, b) == IF a <= b THEN a ELSE b

Max(a, b) == IF a >= b THEN a ELSE b

\* the slice forgotten: the whole list
SliceToAll(seq, n) == seq

\* Python slice seq[:n]; a negative n counts from the end
SliceTo(seq, n) ==
    IF n >= 0 THEN SubSeq(seq, 1, Min(n, Len(seq)))
    ELSE SubSeq(seq, 1, Max(Len(seq) + n, 0))

\* dict.get(key, default)
Get(d, key, default) == IF key \in DOMAIN d THEN d[key] ELSE default

(***************************************************************************)
(* Strings                                                                 *)
(***************************************************************************)

Char(s, i) == SubSeq(s, i, i)

Upper == <<"A", "B", "C", "D", "E", "F", "G", "H", "I", "J", "K", "L", "M",
           "N", "O", "P", "Q", "R", "S", "T", "U", "V", "W", "X", "Y", "Z">>

LowerLetters == <<"a", "b", "c", "d", "e", "f", "g", "h", "i", "j", "k", "l", "m",
                  "n", "o", "p", "q", "r", "s", "t", "u", "v", "w", "x", "y", "z">>

LowerChar(c) ==
    IF \E k \in 1..26 : Upper[k] = c
    THEN LowerLetters[CHOOSE k \in 1..26 : Upper[k] = c]
    ELSE c

RECURSIVE LowerFrom(_, _)
LowerFrom(s, i) ==
    IF i > Len(s) THEN "" ELSE LowerChar(Char(s, i)) \o LowerFrom(s, i + 1)

\* str.lower()
Lower(s) == LowerFrom(s, 1)

\* Python's  t in s  for strings
Contains(s, t) ==
    \E i \in 1..(Len(s) - Len(t) + 1) : SubSeq(s, i, i + Len(t) - 1) = t

\* the literal t occurs in s at position i
StartsAt(s, i, t) ==
    /\ i >= 1
    /\ i + Len(t) - 1 <= Len(s)
    /\ SubSeq(s, i, i + Len(t) - 1) = t

Digits == <<"0", "1", "2", "3", "4", "5", "6", "7", "8", "9">>

IsDigit(c) == \E k \in 1..10 : Digits[k] = c

DigitVal(c) == (CHOOSE k \in 1..10 : Digits[k] = c) - 1

\* regex \s
IsSpace(c) == c \in {" ", "\t", "\n"}

IsDigitAt(s, i) == i >= 1 /\ i <= Len(s) /\ IsDigit(Char(s, i))

IsSpaceAt(s, i) == i >= 1 /\ i <= Len(s) /\ IsSpace(Char(s, i))

\* greedy \d+ from position i: the position after the last digit
RECURSIVE DigitsEnd(_, _)
DigitsEnd(s, i) == IF IsDigitAt(s, i) THEN DigitsEnd(s, i + 1) ELSE i

\* greedy \s* from position i: the position after the last space
RECURSIVE SpacesEnd(_, _)
SpacesEnd(s, i) == IF IsSpaceAt(s, i) THEN SpacesEnd(s, i + 1) ELSE i

\* int() of the digit string s[i..j-1]
RECURSIVE IntOf(_, _, _)
IntOf(s, i, j) ==
    IF j <= i THEN 0 ELSE IntOf(s, i, j - 1) * 10 + DigitVal(Char(s, j - 1))

\* re.search(r'(\d+)', s): the first integer of the text, None without a digit
FirstInt(s) ==
    IF \E i \in 1..Len(s) : IsDigitAt(s, i)
    THEN LET i == CHOOSE k \in 1..Len(s) :
                      IsDigitAt(s, k) /\ \A m \in 1..(k - 1) : ~IsDigitAt(s, m)
         IN  IntOf(s, i, DigitsEnd(s, i))
    ELSE None

(***************************************************************************)
(* Constraint extractor                                                    *)
(***************************************************************************)

\* The patterns of extract_time_constraint, in their listed order.
\*   numlit:  (\d+)\s*lit          litnum:  lit\s*(\d+)
\*   lazy:    head.*?(\d+)\s*lit
time_patterns == <<
    [kind |-> "numlit", head |-> "",             lit |-> "min"],
    [kind |-> "numlit", head |-> "",             lit |-> "minute"],
    [kind |-> "litnum", head |-> "less than",    lit |-> ""],
    [kind |-> "litnum", head |-> "within",       lit |-> ""],
    [kind |-> "litnum", head |-> "under",        lit |-> ""],
    [kind |-> "lazy",   head |-> "max",          lit |-> "min"],
    [kind |-> "lazy",   head |-> "maximum",      lit |-> "min"],
    [kind |-> "litnum", head |-> "no more than", lit |-> ""] >>

\* (\d+)\s*lit matches at position i.  \d+ and \s* are greedy; giving back a
\* digit or a space never helps, since lit begins with neither.
NumLitAt(s, i, lit) ==
    /\ IsDigitAt(s, i)
    /\ StartsAt(s, SpacesEnd(s, DigitsEnd(s, i)), lit)

\* head\s*(\d+) matches at position i
LitNumAt(s, i, head) ==
    /\ StartsAt(s, i, head)
    /\ IsDigitAt(s, SpacesEnd(s, i + Len(head)))

\* the positions j at which .*? started after head at i can hand over to
\* (\d+)\s*lit: '.' does not match a newline
LazyStops(s, i, head, lit) ==
    { j \in (i + Len(head))..Len(s) :
        /\ \A m \in (i + Len(head))..(j - 1) : Char(s, m) # "\n"
        /\ NumLitAt(s, j, lit) }

LazyAt(s, i, head, lit) ==
    /\ StartsAt(s, i, head)
    /\ LazyStops(s, i, head, lit) # {}

SetMin(S) == CHOOSE x \in S : \A y \in S : x <= y

MatchAt(p, s, i) ==
    CASE p.kind = "numlit" -> NumLitAt(s, i, p.lit)
      [] p.kind = "litnum" -> LitNumAt(s, i, p.head)
      [] p.kind = "lazy"   -> LazyAt(s, i, p.head, p.lit)

\* position of the first digit of group 1 for a match at position i
GroupStart(p, s, i) ==
    CASE p.kind = "numlit" -> i
      [] p.kind = "litnum" -> SpacesEnd(s, i + Len(p.head))
      [] p.kind = "lazy"   -> SetMin(LazyStops(s, i, p.head, p.lit))

\* re.search(pattern, s, re.IGNORECASE) on the lower-cased text: the
\* leftmost match
Matches(p, s) == \E i \in 1..Len(s) : MatchAt(p, s, i)

\* int(match.group(1))
Group1(p, s) ==
    LET i == SetMin({ k \in 1..Len(s) : MatchAt(p, s, k) })
        g == GroupStart(p, s, i)
    IN  IntOf(s, g, DigitsEnd(s, g))

\* the loop runs on after a match: the last pattern that matches wins
RECURSIVE LastMatch(_, _, _)
LastMatch(pats, s, k) ==
    IF k > Len(pats) THEN None
    ELSE IF LastMatch(pats, s, k + 1) # None THEN LastMatch(pats, s, k + 1)
    ELSE IF Matches(pats[k], s) THEN Group1(pats[k], s)
    ELSE None

RECURSIVE FirstMatch(_, _, _)
FirstMatch(pats, s, k) ==
    IF k > Len(pats) THEN None
    ELSE IF Matches(pats[k], s) THEN Group1(pats[k], s)
    ELSE FirstMatch(pats, s, k + 1)

extract_time_constraint(query) == FirstMatch(time_patterns, Lower(query), 1)

\* truth value of an Optional[int]:  if time_constraint:
Truthy(n) == n # None /\ n # 0

(***************************************************************************)
(* Keyword heuristic                                                       *)
(***************************************************************************)

tech_skills == <<"java", "python", "javascript", "js", "sql", "c#", "c++", "react",
                 "angular", "node", "excel", "data analysis", "coding">>

role_types == <<"developer", "engineer", "analyst", "manager", "leader", "executive",
                "technical", "business", "data", "hr", "sales", "marketing">>

test_types == <<
    [type |-> "cognitive",
     keywords |-> <<"reasoning", "logic", "problem solving", "analytical", "critical thinking">>],
    [type |-> "personality",
     keywords |-> <<"behavior", "attitude", "team fit", "communication", "collaboration">>],
    [type |-> "skill",
     keywords |-> <<"coding", "technical", "practical", "hands-on">>],
    [type |-> "situational",
     keywords |-> <<"judgment", "scenario", "decision making">>] >>

SkillBonus == 200
RoleBonus == 150
TestTypeBonus == 250
DurationBonus == 300
DurationPenalty == 100
RemoteBonus == 100

\* number of terms that occur in the query and in the name or description
RECURSIVE TermMatches(_, _, _, _, _)
TermMatches(terms, k, query, name, description) ==
    IF k > Len(terms) THEN 0
    ELSE (IF Contains(query, terms[k])
             /\ (Contains(name, terms[k]) \/ Contains(description, terms[k]))
          THEN 1 ELSE 0)
         + TermMatches(terms, k + 1, query, name, description)

\* number of test types mentioned by the query and declared by the candidate
RECURSIVE TestTypeMatches(_, _, _)
TestTypeMatches(k, query, test_type) ==
    IF k > Len(test_types) THEN 0
    ELSE (IF (\E n \in 1..Len(test_types[k].keywords) :
                    Contains(query, test_types[k].keywords[n]))
             /\ Contains(test_type, test_types[k].type)
          THEN 1 ELSE 0)
         + TestTypeMatches(k + 1, query, test_type)

\* bonus and penalty swapped
DurationTermSwapped(query, assessment) ==
    LET time_constraint == extract_time_constraint(query)
        duration_minutes == FirstInt(Get(assessment, "duration", ""))
    IN  IF Truthy(time_constraint) /\ duration_minutes # None
        THEN IF duration_minutes <= time_constraint
             THEN -DurationPenalty ELSE DurationBonus
        ELSE 0

\* the duration bonus or penalty of the keyword heuristic
DurationTerm(query, assessment) ==
    LET time_constraint == extract_time_constraint(query)
        duration_minutes == FirstInt(Get(assessment, "duration", ""))
    IN  IF Truthy(time_constraint) /\ duration_minutes # None
        THEN IF duration_minutes <= time_constraint
             THEN DurationBonus ELSE -DurationPenalty
        ELSE 0

\* the remote bonus subtracted instead of added
RemoteTermSubtracted(query, assessment) ==
    IF Contains(query, "remote")
       /\ Lower(Get(assessment, "remote_testing", "")) = "yes"
    THEN -RemoteBonus ELSE 0

RemoteTerm(query, assessment) ==
    IF Contains(query, "remote")
       /\ Lower(Get(assessment, "remote_testing", "")) = "yes"
    THEN RemoteBonus ELSE 0

\* the additive sum before the cap
RawScore(q, assessment) ==
    LET query == Lower(q)
        description == Lower(Get(assessment, "description", ""))
        name == Lower(Get(assessment, "name", ""))
    IN  SkillBonus * TermMatches(tech_skills, 1, query, name, description)
        + RoleBonus * TermMatches(role_types, 1, query, name, description)
        + TestTypeBonus
            * TestTypeMatches(1, query, Lower(Get(assessment, "test_type", "")))
        + DurationTerm(query, assessment)
        + RemoteTerm(query, assessment)

\* the cap forgotten
UncappedScore(query, assessment) == RawScore(query, assessment)

\* line 157: min(score, 1.0)
fallback_relevance_score(query, assessment) == Min(RawScore(query, assessment), Scale)

\* fallback_relevance_score raises (AttributeError or TypeError) when a field
\* it lower-cases or searches holds None
FallbackRaises(q, assessment) ==
    \/ Get(assessment, "description", "") = PyNone
    \/ Get(assessment, "name", "") = PyNone
    \/ Get(assessment, "test_type", "") = PyNone
    \/ /\ Truthy(extract_time_constraint(Lower(q)))
       /\ Get(assessment, "duration", "") = PyNone
    \/ /\ Contains(Lower(q), "remote")
       /\ Get(assessment, "remote_testing", "") = PyNone

(***************************************************************************)
(* Ranking helpers                                                         *)
(***************************************************************************)

\* assessment.copy() with "score" set
WithScore(assessment, score) ==
    [k \in DOMAIN assessment \cup {"score"} |->
        IF k = "score" THEN score ELSE assessment[k]]

\* insert item behind every element whose score is >= its own
RECURSIVE InsertDesc(_, _)
InsertDesc(sorted, item) ==
    IF sorted = <<>> THEN <<item>>
    ELSE IF Head(sorted).score >= item.score
         THEN <<Head(sorted)>> \o InsertDesc(Tail(sorted), item)
         ELSE <<item>> \o sorted

\* results.sort(key=lambda x: x[1], reverse=True): stable, descending
RECURSIVE SortDesc(_)
SortDesc(items) ==
    IF items = <<>> THEN <<>>
    ELSE InsertDesc(SortDesc(SubSeq(items, 1, Len(items) - 1)), items[Len(items)])

\* [result[0] for result in results]
Recs(items) == [k \in 1..Len(items) |-> items[k].rec]

(***************************************************************************)
(* LLM direct selection                                                    *)
(***************************************************************************)

\* number of candidates serialized into the prompt
PromptLimit == 30

\* building the prompt reads a['name'] of the first PromptLimit candidates
PromptRaises(assessments) ==
    \E k \in 1..Min(Len(assessments), PromptLimit) : "name" \notin DOMAIN assessments[k]

\* out-of-range indices clamped into the list instead of dropped
ClampedIndices(indices, assessments) ==
    IF assessments = <<>> THEN <<>>
    ELSE [k \in 1..Len(indices) |-> Max(1, Min(indices[k], Len(assessments)))]

\* [i-1 for i in indices if 1 <= i <= len(assessments)], kept 1-based
ValidIndices(indices, assessments) ==
    SelectSeq(indices, LAMBDA i : 1 <= i /\ i <= Len(assessments))

\* The provider's answer: kind "error" (the call raises), "notext" (no
\* bracketed array in the text), "badjson" (the array does not parse),
\* "indices" (a JSON array of integers).
llm_recommendation(apiKey, assessments, max_results, response) ==
    IF ~apiKey THEN <<>>
    ELSE IF PromptRaises(assessments) THEN <<>>
    ELSE IF response.kind # "indices" THEN <<>>
    ELSE LET indices == SliceTo(ValidIndices(response.indices, assessments), max_results)
         IN  [k \in 1..Len(indices) |-> assessments[indices[k]]]

\* line 225: the list consists of the candidate dicts themselves; for each
\* record of the list, the 1-based index of the candidate it is
LlmObjects(apiKey, assessments, max_results, response) ==
    IF llm_recommendation(apiKey, assessments, max_results, response) = <<>>
    THEN <<>>
    ELSE SliceTo(ValidIndices(response.indices, assessments), max_results)

(***************************************************************************)
(* Embedding similarity                                                    *)
(***************************************************************************)

\* get_embedding returned None (no key, or the provider call failed)
NoVec == <<>>

RECURSIVE Dot(_, _)
Dot(v, w) == IF v = <<>> THEN 0 ELSE Head(v) * Head(w) + Dot(Tail(v), Tail(w))

\* integer square root; exact on the vectors the provider sets offer
Isqrt(n) == CHOOSE r \in 0..n : r * r <= n /\ n < (r + 1) * (r + 1)

Norm(v) == Isqrt(Dot(v, v))

cosine_similarity(vec1, vec2) ==
    IF Norm(vec1) = 0 \/ Norm(vec2) = 0 THEN 0
    ELSE (Scale * Dot(vec1, vec2)) \div (Norm(vec1) * Norm(vec2))

\* similarity *= 0.5
Halve(similarity) == similarity \div 2

\* line 291: the similarity of each candidate whose embedding succeeded, in
\* list order, before the duration penalty
Similarities(assessments, query_embedding, embeddings) ==
    LET scored == SelectSeq([k \in 1..Len(assessments) |-> k],
                            LAMBDA k : embeddings[k] # NoVec)
    IN  [n \in 1..Len(scored) |->
            [candidate |-> scored[n],
             similarity |-> cosine_similarity(query_embedding,
                                              embeddings[scored[n]])]]

\* the similarity after the duration penalty
PenalizedSimilarity(similarity, time_constraint, assessment) ==
    LET assessment_duration == FirstInt(Get(assessment, "duration", ""))
    IN  IF Truthy(time_constraint)
           /\ assessment_duration # None
           /\ assessment_duration > time_constraint
        THEN Halve(similarity) ELSE similarity

\* the loop over the candidates: those whose embedding failed are skipped
RECURSIVE EmbeddingResults(_, _, _, _, _)
EmbeddingResults(assessments, k, query_embedding, embeddings, time_constraint) ==
    IF k > Len(assessments) THEN <<>>
    ELSE LET similarity == PenalizedSimilarity(
                               cosine_similarity(query_embedding, embeddings[k]),
                               time_constraint, assessments[k])
             rest == EmbeddingResults(assessments, k + 1, query_embedding,
                                      embeddings, time_constraint)
         IN  IF embeddings[k] # NoVec
             THEN <<[rec |-> WithScore(assessments[k], similarity),
                     score |-> similarity]>> \o rest
             ELSE rest

\* assessment['name'] raises KeyError
EmbeddingRaises(assessments) ==
    \E k \in 1..Len(assessments) : "name" \notin DOMAIN assessments[k]

\* the duration text of a candidate is None: re.search raises TypeError
DurationRaises(time_constraint, assessment) ==
    Truthy(time_constraint) /\ Get(assessment, "duration", "") = PyNone

EmbeddingTop(assessments, query_embedding, embeddings, time_constraint, max_results) ==
    Recs(SliceTo(SortDesc(EmbeddingResults(assessments, 1, query_embedding,
                                           embeddings, time_constraint)),
                 max_results))

(***************************************************************************)
(* Keyword strategy of get_recommendations                                 *)
(***************************************************************************)

KeywordResults(query, assessments) ==
    [k \in 1..Len(assessments) |->
        LET relevance == fallback_relevance_score(query, assessments[k])
        IN  [rec |-> WithScore(assessments[k], relevance), score |-> relevance]]

\* the candidates of the ranking whose duration is known and within the
\* constraint
WithinConstraint(results, time_constraint) ==
    SelectSeq(results, LAMBDA r :
        /\ FirstInt(Get(r.rec, "duration", "")) # None
        /\ FirstInt(Get(r.rec, "duration", "")) <= time_constraint)

FilterByConstraint(results, time_constraint) ==
    IF Truthy(time_constraint)
    THEN IF WithinConstraint(results, time_constraint) # <<>>
         THEN WithinConstraint(results, time_constraint)
         ELSE results
    ELSE results

KeywordTop(query, assessments, time_constraint, max_results) ==
    Recs(SliceTo(FilterByConstraint(SortDesc(KeywordResults(query, assessments)),
                                    time_constraint),
                 max_results))

KeywordRaises(query, assessments) ==
    \E k \in 1..Len(assessments) : FallbackRaises(query, assessments[k])

(***************************************************************************)
(* Query log and catalog table                                             *)
(***************************************************************************)

EmptyStore == [assessments |-> <<>>, queries |-> <<>>, recommendations |-> <<>>]

\* Assessment.from_dict(data) with the id the insert assigns
from_dict(data, id) ==
    [id |-> id,
     name |-> Get(data, "name", ""),
     url |-> Get(data, "url", ""),
     description |-> Get(data, "description", ""),
     remote_testing |-> Get(data, "remote_testing", ""),
     adaptive_support |-> Get(data, "adaptive_support", ""),
     duration |-> Get(data, "duration", ""),
     test_type |-> Get(data, "test_type", "")]

RECURSIVE AddAll(_, _, _)
AddAll(rows, assessments_data, k) ==
    IF k > Len(assessments_data) THEN rows
    ELSE AddAll(Append(rows, from_dict(assessments_data[k], Len(rows) + 1)),
                assessments_data, k + 1)

\* init_db: fills an empty assessments table from shl_assessments.json
init_db(st, assessments_data) ==
    IF Len(st.assessments) > 0 THEN st
    ELSE [st EXCEPT !.assessments = AddAll(@, assessments_data, 1)]

\* the lookup misses the record added last: no flush before the query
HasAssessmentStale(rows, name) == \E k \in 1..(Len(rows) - 1) : rows[k].name = name

\* the lookup finds nothing
HasAssessmentNever(rows, name) == FALSE

\* db.query(Assessment).filter(Assessment.name == name).first()
HasAssessment(rows, name) == \E k \in 1..Len(rows) : rows[k].name = name

\* the record added last instead of the record found
LastAdded(rows, name) == rows[Len(rows)]

FirstByName(rows, name) ==
    rows[SetMin({ k \in 1..Len(rows) : rows[k].name = name })]

\* the index of enumerate stored as it is
RankZeroBased(i) == i - 1

\* rank=i + 1 for the 0-based index of enumerate; the model counts from 1
RankOf(i) == i

\* rec["name"] raises KeyError; a None name violates nullable=False at flush
SaveRaises(recommendations) ==
    \E k \in 1..Len(recommendations) :
        \/ "name" \notin DOMAIN recommendations[k]
        \/ recommendations[k]["name"] = PyNone

\* the loop over the recommendations, from the i-th on
RECURSIVE SaveRecs(_, _, _, _)
SaveRecs(st, query_id, recommendations, i) ==
    IF i > Len(recommendations) THEN st
    ELSE LET rec == recommendations[i]
             rows == IF HasAssessment(st.assessments, rec["name"])
                     THEN st.assessments
                     ELSE Append(st.assessments,
                                 from_dict(rec, Len(st.assessments) + 1))
             assessment == FirstByName(rows, rec["name"])
             recommendation == [query_id |-> query_id,
                                assessment_id |-> assessment.id,
                                relevance_score |-> Get(rec, "score", 0),
                                rank |-> RankOf(i)]
         IN  SaveRecs([st EXCEPT !.assessments = rows,
                                 !.recommendations = Append(@, recommendation)],
                      query_id, recommendations, i + 1)

\* the log rewritten instead of appended to
CommittedOverwriting(st, query_text, is_url, recommendations) ==
    LET query == [id |-> 1,
                  query_text |-> query_text,
                  query_type |-> IF is_url THEN "url" ELSE "text",
                  is_url |-> is_url]
    IN  SaveRecs([st EXCEPT !.queries = <<query>>, !.recommendations = <<>>],
                 query.id, recommendations, 1)

\* the store after a committed save_query_and_recommendations
Committed(st, query_text, is_url, recommendations) ==
    LET query == [id |-> Len(st.queries) + 1,
                  query_text |-> query_text,
                  query_type |-> IF is_url THEN "url" ELSE "text",
                  is_url |-> is_url]
    IN  SaveRecs([st EXCEPT !.queries = Append(@, query)],
                 query.id, recommendations, 1)

\* save_query_and_recommendations: db_fails is a failure of the database
\* inside the try block (flush, query or commit); every failure is rolled
\* back and the function returns None
save_query_and_recommendations(st, query_text, is_url, recommendations, db_fails) ==
    IF db_fails \/ SaveRaises(recommendations)
    THEN [store |-> st, returned |-> "None"]
    ELSE [store |-> Committed(st, query_text, is_url, recommendations),
          returned |-> "query"]

\* the rows of a query, in table order
RowsOf(st, query_id) ==
    SelectSeq(st.recommendations, LAMBDA r : r.query_id = query_id)

\* default limit of get_recent_queries
RecentLimit == 10

\* get_recent_queries: the newest queries first, each with its rows
get_recent_queries(st, limit) ==
    LET n == Min(limit, Len(st.queries))
    IN  [k \in 1..n |->
            LET q == st.queries[Len(st.queries) + 1 - k]
            IN  [id |-> q.id, query_text |-> q.query_text,
                 query_type |-> q.query_type, is_url |-> q.is_url,
                 recommendations |-> RowsOf(st, q.id)]]

(***************************************************************************)
(* Facet filters of the callers                                            *)
(***************************************************************************)

\* data_processor.extract_duration: the minutes of '(\d+)\s*(?:minute|min)s?',
\* else 60 times the hours of '(\d+)\s*hour', else None
extract_duration(text) ==
    LET minutes == [kind |-> "numlit", head |-> "", lit |-> "min"]
        hours == [kind |-> "numlit", head |-> "", lit |-> "hour"]
    IN  IF Matches(minutes, Lower(text)) THEN Group1(minutes, Lower(text))
        ELSE IF Matches(hours, Lower(text)) THEN Group1(hours, Lower(text)) * 60
        ELSE None

\* utils.extract_duration_minutes: None for the empty text, else 60 times the
\* hours of '(\d+)\s*hour', else the first integer of the text, else None
extract_duration_minutes(duration_str) ==
    LET hours == [kind |-> "numlit", head |-> "", lit |-> "hour"]
    IN  IF duration_str = "" THEN None
        ELSE IF Matches(hours, Lower(duration_str))
             THEN Group1(hours, Lower(duration_str)) * 60
             ELSE FirstInt(duration_str)

\* str.strip()
RECURSIVE Strip(_)
Strip(s) ==
    IF s = "" THEN ""
    ELSE IF IsSpace(Char(s, 1)) THEN Strip(SubSeq(s, 2, Len(s)))
    ELSE IF IsSpace(Char(s, Len(s))) THEN Strip(SubSeq(s, 1, Len(s) - 1))
    ELSE s

\* [t.strip() for t in s.split(',')]
RECURSIVE SplitStripped(_)
SplitStripped(s) ==
    IF \E i \in 1..Len(s) : Char(s, i) = ","
    THEN LET i == SetMin({ k \in 1..Len(s) : Char(s, k) = "," })
         IN  <<Strip(SubSeq(s, 1, i - 1))>> \o SplitStripped(SubSeq(s, i + 1, Len(s)))
    ELSE <<Strip(s)>>

\* rec.get('test_type') in test_type_list
FilterTestTypes(recommendations, test_type_list) ==
    SelectSeq(recommendations, LAMBDA rec :
        \E k \in 1..Len(test_type_list) :
            Get(rec, "test_type", PyNone) = test_type_list[k])

\* an item of unknown duration is dropped as well
KnownWithinCap(duration_minutes, max_duration) ==
    duration_minutes # None /\ duration_minutes <= max_duration

\* duration_minutes is None or duration_minutes <= max_duration
WithinCap(duration_minutes, max_duration) ==
    duration_minutes = None \/ duration_minutes <= max_duration

FilterDuration(recommendations, max_duration) ==
    SelectSeq(recommendations, LAMBDA rec :
        WithinCap(extract_duration(Get(rec, "duration", "Unknown")), max_duration))

\* rec.get(key) == required_value
FilterExact(recommendations, key, required_value) ==
    SelectSeq(recommendations, LAMBDA rec : Get(rec, key, PyNone) = required_value)

\* "Yes" if flag else "No", for the bool flag of the API
YesNo(flag) == IF flag = 1 THEN "Yes" ELSE "No"

\* every filter starts again from the orchestrator's list
ApiFacetsRestarted(recommendations, f) ==
    LET by_type == IF f.test_types # ""
                   THEN FilterTestTypes(recommendations, SplitStripped(f.test_types))
                   ELSE recommendations
        by_duration == IF f.max_duration # None
                       THEN FilterDuration(recommendations, f.max_duration)
                       ELSE by_type
        by_remote == IF f.remote_testing # None
                     THEN FilterExact(recommendations, "remote_testing",
                                      YesNo(f.remote_testing))
                     ELSE by_duration
    IN  IF f.adaptive_support # None
        THEN FilterExact(recommendations, "adaptive_support", YesNo(f.adaptive_support))
        ELSE by_remote

\* api.get_recommendation, lines 111-144: test types, duration, remote,
\* adaptive; test_types is "" when absent, the other facets None
ApiFacets(recommendations, f) ==
    LET by_type == IF f.test_types # ""
                   THEN FilterTestTypes(recommendations, SplitStripped(f.test_types))
                   ELSE recommendations
        by_duration == IF f.max_duration # None
                       THEN FilterDuration(by_type, f.max_duration)
                       ELSE by_type
        by_remote == IF f.remote_testing # None
                     THEN FilterExact(by_duration, "remote_testing",
                                      YesNo(f.remote_testing))
                     ELSE by_duration
    IN  IF f.adaptive_support # None
        THEN FilterExact(by_remote, "adaptive_support", YesNo(f.adaptive_support))
        ELSE by_remote

\* the slider's largest value: the cap is applied only below it
SliderMax == 120

\* "Yes" if choice == "Required" else "No", for the radio of the dashboard
RequiredValue(choice) == IF choice = "Required" THEN "Yes" ELSE "No"

\* app.main, lines 196-232: test types, remote, adaptive, duration
DashboardFacets(recommendations, f) ==
    LET by_type == IF f.selected_test_types # <<>>
                   THEN FilterTestTypes(recommendations, f.selected_test_types)
                   ELSE recommendations
        by_remote == IF f.remote_testing # "Any"
                     THEN FilterExact(by_type, "remote_testing",
                                      RequiredValue(f.remote_testing))
                     ELSE by_type
        by_adaptive == IF f.adaptive_support # "Any"
                       THEN FilterExact(by_remote, "adaptive_support",
                                        RequiredValue(f.adaptive_support))
                       ELSE by_remote
    IN  IF f.max_duration < SliderMax
        THEN FilterDuration(by_adaptive, f.max_duration)
        ELSE by_adaptive

(***************************************************************************)
(* Inputs                                                                  *)
(***************************************************************************)

JavaTest ==
    [name |-> "Java Coding Test", url |-> "https://shl.test/java",
     description |-> "Hands-on coding for a developer",
     remote_testing |-> "Yes", adaptive_support |-> "No",
     duration |-> "20 minutes", test_type |-> "Skill"]

Reasoning ==
    [name |-> "Verify - Numerical Reasoning", url |-> "https://shl.test/verify",
     description |-> "Decisions from numerical data for an analyst",
     remote_testing |-> "Yes", adaptive_support |-> "Yes",
     duration |-> "45 minutes", test_type |-> "Cognitive"]

Personality ==
    [name |-> "Occupational Personality Questionnaire", url |-> "https://shl.test/opq",
     description |-> "Behavior at work of a manager",
     remote_testing |-> "No", adaptive_support |-> "No",
     duration |-> "90 minutes", test_type |-> "Personality"]

Untimed ==
    [name |-> "Situational Judgment", url |-> "https://shl.test/sjt",
     description |-> "Decisions in sales scenarios",
     remote_testing |-> "Yes", adaptive_support |-> "No",
     duration |-> "Varies", test_type |-> "Situational Judgment"]

Instant ==
    [name |-> "Remote Readiness Check", url |-> "https://shl.test/check",
     description |-> "Technical check before a test",
     remote_testing |-> "Yes", adaptive_support |-> "No",
     duration |-> "0 minutes", test_type |-> "Unknown"]

\* a row read back from the table with a NULL description
NullDescription == [Reasoning EXCEPT !.description = PyNone]

\* a scraped record without the name key
Nameless == [k \in DOMAIN JavaTest \ {"name"} |-> JavaTest[k]]

Catalog == <<JavaTest, Reasoning, Personality>>

Catalogs ==
    { <<>>, Catalog, <<Instant, Untimed, JavaTest>>,
      <<JavaTest, NullDescription>>, <<Reasoning, Nameless>> }

Texts ==
    { "Java developer, remote, within 30", "Reasoning test under 10 for an analyst",
      "Coding test, 0 min" }

Urls == { "https://jobs.test/1" }

\* what get_website_text_content extracts from a page: "" when it fails
Pages == { "", "Sales manager, max 60 minutes" }

\* largest max_results a caller asks for
MaxResults == 3

MaxResultsChoices == (-1)..MaxResults

Requests ==
    [input_text : Texts, is_url : {FALSE}, max_results : MaxResultsChoices,
     save_to_db : BOOLEAN, assessments : Catalogs]
    \cup
    [input_text : Urls, is_url : {TRUE}, max_results : MaxResultsChoices,
     save_to_db : BOOLEAN, assessments : Catalogs]

Responses ==
    { [kind |-> "error", indices |-> <<>>],
      [kind |-> "notext", indices |-> <<>>],
      [kind |-> "badjson", indices |-> <<>>],
      [kind |-> "indices", indices |-> <<3, 99, 1>>],
      [kind |-> "indices", indices |-> <<2, 2>>],
      [kind |-> "indices", indices |-> <<0, 4>>] }

QueryVecs == { NoVec, <<3, 4>> }

CandidateVecs == { NoVec, <<4, 3>>, <<-3, -4>> }

\* contents of shl_assessments.json when the table is first filled
JsonFiles == { <<>>, Catalog }

NoRequest ==
    [input_text |-> "", is_url |-> FALSE, max_results |-> 0,
     save_to_db |-> FALSE, assessments |-> <<>>]

(***************************************************************************)
(* State                                                                   *)
(***************************************************************************)

VARIABLES
    apiKey,           \* GOOGLE_API_KEY is set
    store,            \* the tables assessments, user_queries, query_recommendations
    pc,               \* position of the running get_recommendations call
    req,              \* its arguments
    query,            \* the resolved query text
    time_constraint,  \* the extracted constraint
    attempts,         \* the strategies attempted so far, in order
    response,         \* the provider's answer to the LLM call
    embedded,         \* number of candidates the embedding strategy scored
    similarities,     \* what cosine_similarity returned for each of them
    strategy,         \* the strategy whose list is about to be returned
    produced,         \* that list
    objects,          \* per record of it: the index of the candidate it is the
                      \* same object as, 0 for a new dict
    saved,            \* what save_query_and_recommendations returned
    caught,           \* the top-level handler caught an exception
    result,           \* the returned list
    outcome,          \* how the call ended
    filtered_recommendations,  \* the list the caller shows after its facets
    recent,           \* what the last get_recent_queries returned
    sessions,         \* the database session of each process's save call
    shl_assessments_json  \* the cache file shl_assessments.json

vars == <<apiKey, store, pc, req, query, time_constraint, attempts, response,
          embedded, similarities, strategy, produced, objects, saved, caught, result, outcome,
          filtered_recommendations, recent, sessions, shl_assessments_json>>

\* the variables of the callers of get_recommendations
callerVars == <<filtered_recommendations, recent>>

callVars == <<query, time_constraint, attempts, response, embedded, similarities, strategy,
              produced, objects, saved, caught, result, outcome>>

NoResponse == [kind |-> "none", indices |-> <<>>]

\* run.py starts the API server and the dashboard as two processes
Procs == {"api", "dashboard"}

\* no save call is running in the process
NoSession ==
    [pc |-> "idle", query_text |-> "", is_url |-> FALSE, recommendations |-> <<>>,
     i |-> 0, query_id |-> 0, found |-> 0, flushed |-> EmptyStore,
     returned |-> "none"]

Init ==
    /\ apiKey \in BOOLEAN
    /\ store \in { init_db(EmptyStore, json) : json \in JsonFiles }
    /\ pc = "idle"
    /\ req = NoRequest
    /\ query = ""
    /\ time_constraint = None
    /\ attempts = <<>>
    /\ response = NoResponse
    /\ embedded = 0
    /\ similarities = <<>>
    /\ strategy = "none"
    /\ produced = <<>>
    /\ objects = <<>>
    /\ saved = "none"
    /\ caught = FALSE
    /\ result = <<>>
    /\ outcome = "none"
    /\ filtered_recommendations = <<>>
    /\ recent = <<>>
    /\ sessions = [p \in Procs |-> NoSession]
    /\ shl_assessments_json =
           IF store.assessments = <<>> THEN [exists |-> FALSE, data |-> <<>>]
           ELSE [exists |-> TRUE, data |-> Catalog]

(***************************************************************************)
(* get_recommendations                                                     *)
(***************************************************************************)

\* a caller invokes get_recommendations
Call(requests) ==
    /\ pc = "idle"
    /\ req' \in requests
    /\ pc' = "resolve"
    /\ UNCHANGED callerVars
    /\ UNCHANGED <<apiKey, shl_assessments_json, sessions, store, callVars>>

\* the handler re-raises
HandlerReraises == "raised"

\* what the top-level handler does with an exception: it returns []
HandlerOutcome == "returned"

\* the empty extraction goes unnoticed
ExtractionNeverFailed(is_url, job_description) == FALSE

\* line 257: the extraction of a URL input came back empty
ExtractionFailed(is_url, job_description) == is_url /\ job_description = ""

\* lines 255-264: resolve the input and extract the constraint
Resolve(pages) ==
    /\ pc = "resolve"
    /\ \E page \in pages :
         LET job_description == IF req.is_url THEN page ELSE req.input_text
         IN  IF ExtractionFailed(req.is_url, job_description)
             THEN /\ result' = <<>>
                  /\ outcome' = "returned"
                  /\ pc' = "done"
                  /\ UNCHANGED <<query, time_constraint>>
             ELSE /\ query' = job_description
                  /\ time_constraint' = extract_time_constraint(job_description)
                  /\ pc' = "llm"
                  /\ UNCHANGED <<result, outcome>>
    /\ UNCHANGED callerVars
    /\ UNCHANGED <<apiKey, shl_assessments_json, sessions, store, req, attempts, response, embedded, similarities, strategy,
                   produced, objects, saved, caught>>

\* where the call goes with a strategy's list in hand
AfterProduced(save_to_db) == IF save_to_db THEN "save" ELSE "return"

\* the LLM result is handed on to the next strategy instead of returned
AfterLlmBlend(llm_results, key, save_to_db) ==
    IF key THEN "embedding" ELSE "keyword"

\* where the call goes after the LLM strategy
AfterLlm(llm_results, key, save_to_db) ==
    IF llm_results # <<>> THEN AfterProduced(save_to_db)
    ELSE IF key THEN "embedding" ELSE "keyword"

\* lines 267-272: LLM direct selection
LlmStep(responses) ==
    /\ pc = "llm"
    /\ \E r \in responses :
         LET llm_results == llm_recommendation(apiKey, req.assessments,
                                               req.max_results, r)
         IN  /\ response' = IF apiKey /\ ~PromptRaises(req.assessments)
                            THEN r ELSE NoResponse
             /\ attempts' = Append(attempts, "llm")
             /\ produced' = llm_results
             /\ objects' = LlmObjects(apiKey, req.assessments,
                                       req.max_results, r)
             /\ strategy' = IF llm_results # <<>> THEN "llm" ELSE strategy
             /\ pc' = AfterLlm(llm_results, apiKey, req.save_to_db)
    /\ UNCHANGED callerVars
    /\ UNCHANGED <<apiKey, shl_assessments_json, sessions, store, req, query, time_constraint, embedded, similarities, saved,
                   caught, result, outcome>>

\* where the call goes after the candidate loop of the embedding strategy
AfterEmbedding(top_results, save_to_db) == AfterProduced(save_to_db)

\* lines 275-317: embedding similarity
EmbeddingStep(queryVecs, candidateVecs) ==
    /\ pc = "embedding"
    /\ attempts' = Append(attempts, "embedding")
    /\ \E query_embedding \in queryVecs :
         IF query_embedding = NoVec
         THEN /\ pc' = "keyword"
              /\ UNCHANGED <<embedded, similarities, strategy, produced, objects>>
         ELSE IF EmbeddingRaises(req.assessments)
         THEN /\ pc' = "except"
              /\ UNCHANGED <<embedded, similarities, strategy, produced, objects>>
         ELSE \E embeddings \in [1..Len(req.assessments) -> candidateVecs] :
                IF \E k \in 1..Len(req.assessments) :
                       /\ embeddings[k] # NoVec
                       /\ DurationRaises(time_constraint, req.assessments[k])
                THEN /\ pc' = "except"
                     /\ UNCHANGED <<embedded, similarities, strategy, produced, objects>>
                ELSE LET top_results ==
                             EmbeddingTop(req.assessments, query_embedding,
                                          embeddings, time_constraint,
                                          req.max_results)
                     IN  /\ embedded' = Cardinality({ k \in 1..Len(req.assessments) :
                                                        embeddings[k] # NoVec })
                         /\ similarities' =
                                Similarities(req.assessments, query_embedding,
                                             embeddings)
                         /\ produced' = top_results
                         /\ objects' = [k \in 1..Len(top_results) |-> 0]
                         /\ strategy' = "embedding"
                         /\ pc' = AfterEmbedding(top_results, req.save_to_db)
    /\ UNCHANGED callerVars
    /\ UNCHANGED <<apiKey, shl_assessments_json, sessions, store, req, query, time_constraint, response, saved,
                   caught, result, outcome>>

\* lines 320-346: keyword heuristic
KeywordStep ==
    /\ pc = "keyword"
    /\ attempts' = Append(attempts, "keyword")
    /\ IF KeywordRaises(query, req.assessments)
       THEN /\ pc' = "except"
            /\ UNCHANGED <<strategy, produced, objects>>
       ELSE /\ produced' = KeywordTop(query, req.assessments, time_constraint,
                                      req.max_results)
            /\ objects' = [k \in 1..Len(produced') |-> 0]
            /\ strategy' = "keyword"
            /\ pc' = AfterProduced(req.save_to_db)
    /\ UNCHANGED callerVars
    /\ UNCHANGED <<apiKey, shl_assessments_json, sessions, store, req, query, time_constraint, response, embedded, similarities,
                   saved, caught, result, outcome>>

\* the list is dropped when the write failed
ReturnedIfSaved(top_results, save_returned) ==
    IF save_returned = "None" THEN <<>> ELSE top_results

\* the list the call returns once the save call came back
Returned(top_results, save_returned) == top_results

\* lines 270-271, 314-315, 349-350: the query log write
Save ==
    /\ pc = "save"
    /\ \E db_fails \in BOOLEAN :
         LET s == save_query_and_recommendations(store, req.input_text, req.is_url,
                                                 produced, db_fails)
         IN  /\ store' = s.store
             /\ saved' = s.returned
    /\ pc' = "return"
    /\ UNCHANGED callerVars
    /\ UNCHANGED <<apiKey, shl_assessments_json, sessions, req, query, time_constraint, attempts, response,
                   embedded, similarities, strategy, produced, objects, caught, result, outcome>>

\* lines 272, 317, 352: return the list
Return ==
    /\ pc = "return"
    /\ result' = Returned(produced, saved)
    /\ outcome' = "returned"
    /\ pc' = "done"
    /\ UNCHANGED callerVars
    /\ UNCHANGED <<apiKey, shl_assessments_json, sessions, store, req, query, time_constraint, attempts, response,
                   embedded, similarities, strategy, produced, objects, saved, caught>>

\* lines 354-356: the top-level handler
Except ==
    /\ pc = "except"
    /\ caught' = TRUE
    /\ result' = <<>>
    /\ outcome' = HandlerOutcome
    /\ pc' = "done"
    /\ UNCHANGED callerVars
    /\ UNCHANGED <<apiKey, shl_assessments_json, sessions, store, req, query, time_constraint, attempts, response,
                   embedded, similarities, strategy, produced, objects, saved>>

\* api.get_recommendation, lines 111-150: the facets of the API request
ApiFilter ==
    /\ pc = "done"
    /\ "test_types" \in DOMAIN req.facets
    /\ filtered_recommendations' = ApiFacets(result, req.facets)
    /\ pc' = "responded"
    /\ UNCHANGED <<apiKey, shl_assessments_json, sessions, store, req, callVars, recent>>

\* app.main, lines 196-245: the facets chosen in the dashboard
DashboardFilter ==
    /\ pc = "done"
    /\ "selected_test_types" \in DOMAIN req.facets
    /\ filtered_recommendations' = DashboardFacets(result, req.facets)
    /\ pc' = "responded"
    /\ UNCHANGED <<apiKey, shl_assessments_json, sessions, store, req, callVars, recent>>

\* api.get_queries: the query log is read between two requests
ReadQueries ==
    /\ pc = "responded"
    /\ recent' = get_recent_queries(store, RecentLimit)
    /\ UNCHANGED <<apiKey, shl_assessments_json, sessions, store, pc, req, callVars, filtered_recommendations>>

\* the response is sent; the process waits for the next request with nothing
\* kept but the store
NextRequest ==
    /\ pc = "responded"
    /\ pc' = "idle"
    /\ req' = NoRequest
    /\ query' = ""
    /\ time_constraint' = None
    /\ attempts' = <<>>
    /\ response' = NoResponse
    /\ embedded' = 0
    /\ similarities' = <<>>
    /\ strategy' = "none"
    /\ produced' = <<>>
    /\ objects' = <<>>
    /\ saved' = "none"
    /\ caught' = FALSE
    /\ result' = <<>>
    /\ outcome' = "none"
    /\ filtered_recommendations' = <<>>
    /\ recent' = <<>>
    /\ UNCHANGED <<apiKey, shl_assessments_json, sessions, store>>

Next ==
    \/ Call(Requests)
    \/ Resolve(Pages)
    \/ LlmStep(Responses)
    \/ EmbeddingStep(QueryVecs, CandidateVecs)
    \/ KeywordStep
    \/ Save
    \/ Return
    \/ Except

Spec == Init /\ [][Next]_vars

(***************************************************************************)
(* Properties of get_recommendations                                       *)
(***************************************************************************)

Range(seq) == { seq[k] : k \in 1..Len(seq) }

\* C1 as stated: for every max_results the returned list has at most
\* max_results elements.
C1_LengthWithinAnyMax ==
    pc = "done" => Len(result) <= req.max_results

\* C1, amended: for every max_results >= 0 the returned list has at most
\* max_results elements, whichever strategy produced it.
C1_LengthWithinMax ==
    (pc = "done" /\ req.max_results >= 0) => Len(result) <= req.max_results

\* a list cut down to max_results
C1_Truncated ==
    /\ pc = "done"
    /\ req.max_results >= 1
    /\ Len(result) = req.max_results
    /\ Len(req.assessments) > req.max_results

\* what the LLM strategy yielded for the provider's answer
LlmYield ==
    llm_recommendation(apiKey, req.assessments, req.max_results, response)

\* C2: the strategies are attempted in the order LLM, embedding, keyword, none
\* twice; a later one only when the earlier ones yielded nothing; the returned
\* list is the list of one strategy, the LLM's in the model's order.
C2_StrictFallbackChain ==
    /\ attempts \in { <<>>, <<"llm">>, <<"llm", "embedding">>, <<"llm", "keyword">>,
                      <<"llm", "embedding", "keyword">> }
    /\ Len(attempts) >= 2 => LlmYield = <<>>
    /\ "keyword" \in Range(attempts) => strategy \in {"none", "keyword"}
    /\ strategy = "llm" => attempts = <<"llm">>
    /\ strategy = "embedding" => attempts = <<"llm", "embedding">>
    /\ (pc = "done" /\ strategy = "llm") => result = LlmYield
    /\ (pc = "done" /\ strategy = "keyword" /\ ~caught) =>
           result = KeywordTop(query, req.assessments, time_constraint,
                               req.max_results)

\* the keyword ranking returned after both earlier strategies yielded nothing
C2_FellThroughTwice ==
    /\ pc = "done"
    /\ attempts = <<"llm", "embedding", "keyword">>
    /\ result # <<>>

\* C3 as stated: when the embedding strategy scores no candidate, the call
\* falls through to the keyword heuristic and returns its ranking.
C3_FallsThroughWithoutEmbeddings ==
    (pc = "done" /\ "embedding" \in Range(attempts) /\ embedded = 0 /\ ~caught) =>
        /\ "keyword" \in Range(attempts)
        /\ result = KeywordTop(query, req.assessments, time_constraint,
                               req.max_results)

\* C4: no exception leaves get_recommendations; an exception that reaches its
\* handler becomes a returned empty list.
C4_NoExceptionEscapes ==
    /\ outcome # "raised"
    /\ pc = "done" => outcome = "returned"
    /\ caught => (result = <<>> /\ outcome = "returned")

\* a scorer raised and the call returned
C4_ScorerRaised ==
    pc = "done" /\ caught /\ Len(attempts) >= 2

\* C5: when the query log write fails the caller still receives the list the
\* strategy computed.
C5_SaveFailureKeepsResult ==
    (pc = "done" /\ saved = "None") => result = produced

\* a non-empty list returned after a failed write
C5_FailedWrite ==
    pc = "done" /\ saved = "None" /\ result # <<>> /\ store.queries = <<>>

\* C6 as stated: every returned element carries a score, whichever strategy
\* produced the list.
C6_EveryElementScored ==
    pc = "done" => \A k \in 1..Len(result) : "score" \in DOMAIN result[k]

\* C7: an empty extraction of a URL input returns the empty list at once: no
\* strategy is attempted and no query is recorded.
C7_EmptyExtractionShortCircuits ==
    (pc = "done" /\ req.is_url /\ query = "") =>
        /\ result = <<>>
        /\ attempts = <<>>
        /\ saved = "none"
        /\ store.queries = <<>>
        /\ ~caught

\* a URL request with persistence on and a provider configured ends empty
C7_EmptyExtraction ==
    /\ pc = "done"
    /\ req.is_url
    /\ query = ""
    /\ req.save_to_db
    /\ apiKey
    /\ req.assessments # <<>>

\* the candidates of a list whose duration is known and at most c
Satisfying(assessments, c) ==
    { k \in 1..Len(assessments) :
        /\ FirstInt(Get(assessments[k], "duration", "")) # None
        /\ FirstInt(Get(assessments[k], "duration", "")) <= c }

\* C9 as stated: with an extracted constraint c the keyword strategy removes
\* the candidates whose duration exceeds c when some candidate satisfies c,
\* and returns the full ranking when none does.
C9_KeywordDurationFilter ==
    (pc = "done" /\ strategy = "keyword" /\ ~caught /\ time_constraint # None) =>
        IF Satisfying(req.assessments, time_constraint) # {}
        THEN \A k \in 1..Len(result) :
                 ~(FirstInt(Get(result[k], "duration", "")) > time_constraint)
        ELSE result = Recs(SliceTo(SortDesc(KeywordResults(query, req.assessments)),
                                   req.max_results))

(***************************************************************************)
(* The LLM strategy over every short answer of the provider                *)
(***************************************************************************)

Catalog5 == <<JavaTest, Reasoning, Personality, Untimed, Instant>>

\* longest index array the provider answers with
MaxIndices == 3

IndexValues == {0, 1, 3, 5, 6, 99}

IndexArrays == UNION { [1..n -> IndexValues] : n \in 0..MaxIndices }

ResponsesLlm == { [kind |-> "indices", indices |-> a] : a \in IndexArrays }

RequestsLlm ==
    [input_text : {"Sales"}, is_url : {FALSE},
     max_results : MaxResultsChoices, save_to_db : {FALSE},
     assessments : {Catalog5}]

InitLlm == Init /\ apiKey /\ store = EmptyStore

NextLlm ==
    \/ Call(RequestsLlm)
    \/ Resolve(Pages)
    \/ LlmStep(ResponsesLlm)
    \/ EmbeddingStep({NoVec}, {NoVec})
    \/ KeywordStep
    \/ Return

SpecLlm == InitLlm /\ [][NextLlm]_vars

\* the indices of an array that lie in 1..n, in the array's order
RECURSIVE InRange(_, _)
InRange(indices, n) ==
    IF indices = <<>> THEN <<>>
    ELSE IF Head(indices) \in 1..n
         THEN <<Head(indices)>> \o InRange(Tail(indices), n)
         ELSE InRange(Tail(indices), n)

\* C8: the LLM strategy drops every index outside 1..N and returns the
\* candidates of the remaining indices in the model's order (all of them when
\* max_results allows); [3, 99, 1] against 5 candidates gives candidate 3, then
\* candidate 1.
C8_LlmDropsInvalidIndices ==
    (pc = "done" /\ response.kind = "indices") =>
        LET kept == InRange(response.indices, Len(req.assessments))
            llm == IF strategy = "llm" THEN result ELSE <<>>
        IN  /\ Len(llm) <= Len(kept)
            /\ \A k \in 1..Len(llm) : llm[k] = req.assessments[kept[k]]
            /\ req.max_results >= Len(kept) => Len(llm) = Len(kept)
            /\ (/\ response.indices = <<3, 99, 1>>
                /\ Len(req.assessments) = 5
                /\ req.max_results >= 2) =>
                   result = <<req.assessments[3], req.assessments[1]>>

\* the answer [3, 99, 1] against 5 candidates
C8_ThreeNinetyNineOne ==
    /\ pc = "done"
    /\ response.indices = <<3, 99, 1>>
    /\ Len(req.assessments) = 5
    /\ result = <<Personality, JavaTest>>

(***************************************************************************)
(* The keyword heuristic over composed queries and candidates              *)
(***************************************************************************)

QueryParts == <<"Java ", "SQL ", "developer ", "reasoning ", "remote ">>

QueryEnds == { "test", "test within 30", "test, 0 min" }

RECURSIVE Join(_, _, _)
Join(parts, chosen, k) ==
    IF k > Len(parts) THEN ""
    ELSE (IF k \in chosen THEN parts[k] ELSE "") \o Join(parts, chosen, k + 1)

ComposedQueries ==
    { Join(QueryParts, chosen, 1) \o e :
        chosen \in SUBSET (1..Len(QueryParts)), e \in QueryEnds }

ComposedCandidates ==
    [name : {"Java Developer Test", "General Ability"},
     url : {"https://shl.test/c"},
     description : {"SQL, logical REASONING"},
     remote_testing : {"Yes", "No"},
     adaptive_support : {"No"},
     duration : {"20 minutes", "45 minutes", "Varies"},
     test_type : {"Cognitive", "Personality"}]

RequestsScore ==
    [input_text : ComposedQueries, is_url : {FALSE}, max_results : {1},
     save_to_db : {FALSE}, assessments : { <<c>> : c \in ComposedCandidates }]

InitScore == Init /\ ~apiKey /\ store = EmptyStore

NextScore ==
    \/ Call(RequestsScore)
    \/ Resolve(Pages)
    \/ LlmStep(Responses)
    \/ KeywordStep
    \/ Return

SpecScore == InitScore /\ [][NextScore]_vars

Signals(q, assessment) ==
    LET lowered == Lower(q)
        text == Lower(Get(assessment, "name", "")) \o "\n"
                    \o Lower(Get(assessment, "description", ""))
        limit == extract_time_constraint(lowered)
        minutes == FirstInt(Get(assessment, "duration", ""))
        timed == limit # None /\ limit # 0 /\ minutes # None
    IN  [skills |-> Cardinality({ k \in 1..Len(tech_skills) :
                        Contains(lowered, tech_skills[k]) /\ Contains(text, tech_skills[k]) }),
         roles |-> Cardinality({ k \in 1..Len(role_types) :
                        Contains(lowered, role_types[k]) /\ Contains(text, role_types[k]) }),
         types |-> Cardinality({ k \in 1..Len(test_types) :
                        /\ \E n \in 1..Len(test_types[k].keywords) :
                               Contains(lowered, test_types[k].keywords[n])
                        /\ Contains(Lower(Get(assessment, "test_type", "")),
                                    test_types[k].type) }),
         within |-> IF timed /\ minutes <= limit THEN 1 ELSE 0,
         remote |-> IF Contains(lowered, "remote")
                       /\ Lower(Get(assessment, "remote_testing", "")) = "yes"
                    THEN 1 ELSE 0,
         over |-> IF timed /\ minutes > limit THEN 1 ELSE 0]

BonusGroups == {"skills", "roles", "types", "within", "remote"}

\* t has exactly one bonus condition more than s and is otherwise as s; the
\* duration coming within the constraint may end its exceeding it
OneMore(s, t) ==
    \E g \in BonusGroups :
        /\ t[g] = s[g] + 1
        /\ \A h \in BonusGroups \ {g} : t[h] = s[h]
        /\ t.over = s.over \/ (g = "within" /\ t.over = 0)

\* a query with a phrase put in front of it or behind it
Extensions(q) ==
    { part \o q : part \in {"Java ", "developer ", "reasoning ", "remote ", "60 min, "} }
    \cup { q \o " within 30" }

\* C11: for a fixed candidate, a query for which one more bonus condition
\* holds, all others as before, never scores lower: a query that scores lower
\* is not such a query.
C11_ScoreMonotone ==
    (pc = "done" /\ strategy = "keyword" /\ Len(result) = 1) =>
        \A q2 \in Extensions(query) :
            \/ fallback_relevance_score(q2, req.assessments[1]) >= result[1].score
            \/ ~OneMore(Signals(query, req.assessments[1]),
                        Signals(q2, req.assessments[1]))

\* a candidate over the constraint comes within it and scores higher
C11_OneMoreHolds ==
    /\ pc = "done"
    /\ strategy = "keyword"
    /\ Len(result) = 1
    /\ Signals(query, req.assessments[1]).over = 1
    /\ \E q2 \in Extensions(query) :
           /\ OneMore(Signals(query, req.assessments[1]),
                      Signals(q2, req.assessments[1]))
           /\ Signals(q2, req.assessments[1]).within = 1
           /\ fallback_relevance_score(q2, req.assessments[1]) > result[1].score

(***************************************************************************)
(* The keyword path without a provider: duration cues and the scenario     *)
(***************************************************************************)

\* phrases that state a duration
Cues == <<"within 30", "UNDER 20", "less than 25", "No more than 15",
          "45 minutes", "max of 60 min", "maximum 90min", "10 Min">>

\* one cue, two cues in either order, and texts of job descriptions
CueTexts ==
    { "A test " \o Cues[i] : i \in 1..Len(Cues) }
    \cup { Cues[i] \o ", about " \o Cues[j] : i, j \in 1..Len(Cues) }
    \cup { "The assessment must be completed in 40 minutes", "within 30",
           "A reasoning test for analysts", "Two tests for 3 analysts" }

Scenario == "need a 30 minute cognitive test for developers"

CognitiveShort ==
    [name |-> "Verify Interactive - Cognitive Ability",
     url |-> "https://shl.test/verify-interactive",
     description |-> "Critical reasoning through interactive tasks",
     remote_testing |-> "Yes", adaptive_support |-> "Yes",
     duration |-> "30 minutes", test_type |-> "Cognitive"]

PersonalityHour ==
    [name |-> "Developer Personality Profile", url |-> "https://shl.test/profile",
     description |-> "Personality of developers at work",
     remote_testing |-> "Yes", adaptive_support |-> "No",
     duration |-> "60 minutes", test_type |-> "Personality"]

\* the lists of one to three distinct candidates
ScenarioCatalogs ==
    { c \in UNION { [1..n -> {CognitiveShort, PersonalityHour, JavaTest,
                              Reasoning, Untimed}] : n \in 1..3 } :
        \A i, j \in 1..Len(c) : c[i] = c[j] => i = j }

RequestsKeyword ==
    [input_text : CueTexts, is_url : {FALSE}, max_results : {1},
     save_to_db : {FALSE}, assessments : { <<JavaTest>> }]
    \cup
    [input_text : {Scenario}, is_url : {FALSE}, max_results : MaxResultsChoices,
     save_to_db : {FALSE}, assessments : ScenarioCatalogs]

NextKeyword ==
    \/ Call(RequestsKeyword)
    \/ Resolve(Pages)
    \/ LlmStep(Responses)
    \/ KeywordStep
    \/ Return

SpecKeyword == InitScore /\ [][NextKeyword]_vars

\* C12: the extracted constraint is the integer captured by the first pattern,
\* in the listed order, that matches the text case-insensitively, wherever in
\* the text its match lies, and None when no pattern matches; "...completed in
\* 40 minutes" gives 40, "within 30" gives 30, a text without a cue gives None.
C12_FirstPatternWins ==
    pc = "llm" =>
        LET matched == { k \in 1..Len(time_patterns) :
                            Matches(time_patterns[k], Lower(query)) }
        IN  /\ matched = {} => time_constraint = None
            /\ matched # {} =>
                   time_constraint = Group1(time_patterns[SetMin(matched)], Lower(query))
            /\ query = "The assessment must be completed in 40 minutes" =>
                   time_constraint = 40
            /\ query = "within 30" => time_constraint = 30
            /\ query = "A reasoning test for analysts" => time_constraint = None
            /\ query = "within 30, about 45 minutes" => time_constraint = 45
            /\ query = "45 minutes, about within 30" => time_constraint = 45
            /\ query = "UNDER 20, about less than 25" => time_constraint = 25

\* the first pattern matches behind the match of a later pattern
C12_LaterInTextWins ==
    /\ pc = "llm"
    /\ query = "within 30, about 45 minutes"
    /\ time_constraint = 45

\* a candidate of the given type whose duration is known
OfType(assessment, test_type) ==
    /\ Get(assessment, "test_type", "") = test_type
    /\ FirstInt(Get(assessment, "duration", "")) # None

\* C13: without a provider the scenario query is answered by the keyword
\* heuristic with no provider call, and every Cognitive candidate of at most 30
\* minutes scores above, and lies before, any Personality candidate of 60
\* minutes in the result.
C13_ScenarioRanking ==
    (pc = "done" /\ query = Scenario /\ ~apiKey) =>
        /\ attempts = <<"llm", "keyword">>
        /\ response = NoResponse
        /\ embedded = 0
        /\ strategy = "keyword"
        /\ ~caught
        /\ \A c, p \in Range(req.assessments) :
               (/\ OfType(c, "Cognitive") /\ FirstInt(c.duration) <= 30
                /\ OfType(p, "Personality") /\ FirstInt(p.duration) = 60) =>
                   /\ fallback_relevance_score(query, c) > fallback_relevance_score(query, p)
                   /\ \A i \in 1..Len(result) :
                          result[i].name = p.name =>
                              \E j \in 1..(i - 1) : result[j].name = c.name

\* the short Cognitive candidate returned first although the list names the
\* Personality candidate before it
C13_CognitiveFirst ==
    /\ pc = "done"
    /\ query = Scenario
    /\ Len(req.assessments) >= 2
    /\ req.assessments[1] = PersonalityHour
    /\ CognitiveShort \in Range(req.assessments)
    /\ result # <<>>
    /\ result[1].name = CognitiveShort.name

(***************************************************************************)
(* The query log over successive requests                                  *)
(***************************************************************************)

\* a second product of the Verify page: another name under the URL of Reasoning
Verbal ==
    [Reasoning EXCEPT !.name = "Verify - Verbal Reasoning",
                      !.description = "Logic of statements",
                      !.duration = "17 minutes"]

\* the record of JavaTest scraped again from another page
JavaRetake ==
    [JavaTest EXCEPT !.url = "https://shl.test/coding-tests",
                     !.duration = "60 minutes"]

\* an API request without facets
NoFacets ==
    [test_types |-> "", max_duration |-> None, remote_testing |-> None,
     adaptive_support |-> None]

\* number of queries the log holds at most
MaxSaves == 2

\* requests that write, and one that does not
RequestsStore ==
    { r \in [input_text : {"Java developer", "Reasoning for an analyst within 30"},
             is_url : {FALSE}, max_results : {2}, save_to_db : BOOLEAN,
             assessments : { <<JavaTest, Reasoning>>, <<Verbal, JavaRetake>>,
                             <<Reasoning, Nameless>> },
             facets : { [NoFacets EXCEPT !.test_types = "Cognitive"] }] :
          r.save_to_db \/ (r.input_text = "Java developer"
                              /\ r.assessments = <<JavaTest, Reasoning>>) }

ResponsesStore == { r \in Responses : r.kind = "error" \/ r.indices = <<2, 2>> }

NextStore ==
    \/ Len(store.queries) < MaxSaves /\ Call(RequestsStore)
    \/ Resolve(Pages)
    \/ LlmStep(ResponsesStore)
    \/ EmbeddingStep(QueryVecs, {NoVec})
    \/ KeywordStep
    \/ Save
    \/ Return
    \/ Except
    \/ ApiFilter
    \/ ReadQueries
    \/ NextRequest

SpecStore == Init /\ [][NextStore]_vars

\* the stored record a row refers to
Referred(st, row) ==
    st.assessments[CHOOSE k \in 1..Len(st.assessments) :
                       st.assessments[k].id = row.assessment_id]

\* the step is a committed write of the running request
CommittedSave == pc = "save" /\ saved' = "query"

\* C14: from a store without two records of one name, no sequence of saves
\* leaves two Assessment records of one name, also when a list is saved a
\* second time or names an assessment twice.
C14_NamesUnique ==
    \A i, j \in 1..Len(store.assessments) :
        store.assessments[i].name = store.assessments[j].name => i = j

\* the same list, naming a newly inserted assessment twice, saved twice
C14_SameListTwice ==
    /\ Len(store.queries) = 2
    /\ store.queries[1].query_text = store.queries[2].query_text
    /\ Len(RowsOf(store, 1)) = 2
    /\ Len(RowsOf(store, 2)) = 2
    /\ \A q \in 1..2, k \in 1..2 :
           /\ RowsOf(store, q)[k].assessment_id = RowsOf(store, 1)[1].assessment_id
           /\ Referred(store, RowsOf(store, q)[k]).name = JavaRetake.name
           /\ Referred(store, RowsOf(store, q)[k]).url = JavaRetake.url

C16_UrlsUnique ==
    \A i, j \in 1..Len(store.assessments) :
        store.assessments[i].url = store.assessments[j].url => i = j

\* C16, amended: the name is the key. A committed save leaves the stored
\* records as they are, inserts one record for each recommended name not yet
\* stored, taken from the first item of that name, and every row refers to
\* the record of its item's name, whatever the URLs.
C16_NameIsKey ==
    [][CommittedSave =>
        LET old == store.assessments
            new == store'.assessments
            rows == RowsOf(store', Len(store'.queries))
        IN  /\ SubSeq(new, 1, Len(old)) = old
            /\ \A k \in (Len(old) + 1)..Len(new) :
                   /\ \A m \in 1..Len(old) : old[m].name # new[k].name
                   /\ \E i \in 1..Len(produced) :
                          /\ produced[i].name = new[k].name
                          /\ \A h \in 1..(i - 1) : produced[h].name # new[k].name
                          /\ new[k].url = Get(produced[i], "url", "")
            /\ \A i \in 1..Len(produced) :
                   /\ Referred(store', rows[i]).name = produced[i].name
                   /\ (\E m \in 1..Len(old) : old[m].name = produced[i].name) =>
                          Referred(store', rows[i]) \in Range(old)]_vars

\* a stored record reused for an item of its name and another URL, next to two
\* records of one URL
C16_ReusedByName ==
    /\ pc = "responded"
    /\ saved = "query"
    /\ \E i \in 1..Len(result) :
           Referred(store, RowsOf(store, Len(store.queries))[i]).url # result[i].url
    /\ \E i, j \in 1..Len(store.assessments) :
           i # j /\ store.assessments[i].url = store.assessments[j].url

\* the store after the write of the running request is performed once more
SavedAgain ==
    save_query_and_recommendations(store', req.input_text, req.is_url, produced,
                                   FALSE).store

\* C17 as stated: performing the write a second time leaves the store as the
\* first write left it.
C17_SaveIdempotent ==
    [][CommittedSave => SavedAgain = store']_vars

\* a row without the query it belongs to
Unattached(row) == [k \in DOMAIN row \ {"query_id"} |-> row[k]]

\* C17, amended: performing the write a second time leaves the Assessment
\* records as the first write left them and appends one more query record of
\* the same text and kind with the same rows.
C17_SecondWriteAddsQueryOnly ==
    [][CommittedSave =>
        LET n == Len(store'.queries)
            first == RowsOf(store', n)
            second == RowsOf(SavedAgain, n + 1)
        IN  /\ SavedAgain.assessments = store'.assessments
            /\ SubSeq(SavedAgain.queries, 1, n) = store'.queries
            /\ Len(SavedAgain.queries) = n + 1
            /\ SavedAgain.queries[n + 1] = [store'.queries[n] EXCEPT !.id = n + 1]
            /\ SavedAgain.recommendations = store'.recommendations \o second
            /\ Len(second) = Len(first)
            /\ \A k \in 1..Len(first) : Unattached(second[k]) = Unattached(first[k])]_vars

\* a write that inserted an Assessment record
C17_WriteInserted ==
    /\ pc = "return"
    /\ saved = "query"
    /\ produced # <<>>
    /\ Len(store.assessments) > 3

\* C18: a step adds at most one UserQuery, only the committed write of a
\* request with save_to_db set does, once per call, with the request's text;
\* no step changes or removes a stored UserQuery or recommendation row.
C18_QueriesAppendOnly ==
    [][/\ SubSeq(store'.queries, 1, Len(store.queries)) = store.queries
       /\ SubSeq(store'.recommendations, 1, Len(store.recommendations))
              = store.recommendations
       /\ Len(store'.queries) <= Len(store.queries) + 1
       /\ Len(store'.queries) = Len(store.queries) + 1 <=> CommittedSave
       /\ CommittedSave =>
              /\ req.save_to_db
              /\ saved = "none"
              /\ strategy # "none"
              /\ store'.queries[Len(store'.queries)].query_text = req.input_text
              /\ \A k \in (Len(store.recommendations) + 1)..Len(store'.recommendations) :
                     store'.recommendations[k].query_id = Len(store'.queries)
       /\ ~CommittedSave => store'.recommendations = store.recommendations
      ]_vars

\* two requests logged one after the other, and the log read
C18_TwoLogged ==
    /\ pc = "responded"
    /\ Len(store.queries) = 2
    /\ store.queries[1].query_text # store.queries[2].query_text
    /\ Len(recent) = 2
    /\ recent[2].recommendations # <<>>

(***************************************************************************)
(* One request of the API or of the dashboard with facets                  *)
(***************************************************************************)

\* max_results of the callers
CallerMaxResults == 20

Hourly ==
    [Personality EXCEPT !.name = "Executive Assessment",
                        !.url = "https://shl.test/executive",
                        !.duration = "1 hour"]

\* a scraped record with the fields of the catalog page only
Sparse ==
    [name |-> "Graduate Screening", url |-> "https://shl.test/graduate",
     description |-> "Screening of graduates"]

\* the records the API serves carry every field of its response model
CallerCatalog == Catalog5 \o <<Hourly>>

RequestsApi ==
    [input_text : {"Java developer, remote"}, is_url : {FALSE},
     max_results : {CallerMaxResults}, save_to_db : {TRUE},
     assessments : {CallerCatalog},
     facets : [test_types : {"", "Cognitive", "Skill, Cognitive"},
               max_duration : {None, 0, 30, 60},
               remote_testing : {None, 0, 1},
               adaptive_support : {None, 0, 1}]]

RequestsDashboard ==
    [input_text : {"Java developer, remote"}, is_url : {FALSE},
     max_results : {CallerMaxResults}, save_to_db : {TRUE},
     assessments : {CallerCatalog \o <<Sparse>>},
     facets : [selected_test_types : {<<>>, <<"Cognitive">>, <<"Skill", "Cognitive">>},
               max_duration : {10, 30, 60, SliderMax},
               remote_testing : {"Any", "Required", "Not Required"},
               adaptive_support : {"Any", "Required", "Not Required"}]]

InitApi == Init /\ store = EmptyStore

NextApi ==
    \/ Call(RequestsApi)
    \/ Call(RequestsDashboard)
    \/ Resolve(Pages)
    \/ LlmStep(ResponsesStore)
    \/ EmbeddingStep({NoVec}, {NoVec})
    \/ KeywordStep
    \/ Save
    \/ Return
    \/ ApiFilter
    \/ DashboardFilter

SpecApi == InitApi /\ [][NextApi]_vars

\* the request came from the API
FromApi == "test_types" \in DOMAIN req.facets

\* the minutes the duration texts of the catalog state; None for the others
StatedMinutes(text) ==
    CASE text = "20 minutes" -> 20
      [] text = "45 minutes" -> 45
      [] text = "90 minutes" -> 90
      [] text = "0 minutes" -> 0
      [] text = "1 hour" -> 60
      [] OTHER -> None

\* the cap of the duration facet, None when the facet is not supplied
SuppliedCap ==
    IF FromApi THEN req.facets.max_duration
    ELSE IF req.facets.max_duration < SliderMax THEN req.facets.max_duration
    ELSE None

\* the test types asked for; {} when the facet is not supplied
SuppliedTypes ==
    IF FromApi
    THEN CASE req.facets.test_types = "Cognitive" -> {"Cognitive"}
           [] req.facets.test_types = "Skill, Cognitive" -> {"Skill", "Cognitive"}
           [] OTHER -> {}
    ELSE Range(req.facets.selected_test_types)

\* the value a Yes/No facet requires; PyNone when the facet is not supplied
SuppliedValue(facet) ==
    IF FromApi
    THEN CASE req.facets[facet] = 1 -> "Yes"
           [] req.facets[facet] = 0 -> "No"
           [] OTHER -> PyNone
    ELSE CASE req.facets[facet] = "Required" -> "Yes"
           [] req.facets[facet] = "Not Required" -> "No"
           [] OTHER -> PyNone

\* the item satisfies every supplied facet but, possibly, the duration cap
SatisfiesOthers(rec) ==
    /\ SuppliedTypes # {} => ("test_type" \in DOMAIN rec /\ rec.test_type \in SuppliedTypes)
    /\ \A facet \in {"remote_testing", "adaptive_support"} :
           SuppliedValue(facet) # PyNone =>
               (facet \in DOMAIN rec /\ rec[facet] = SuppliedValue(facet))

\* the item's duration is not known to exceed the supplied cap
SatisfiesCap(rec) ==
    \/ SuppliedCap = None
    \/ "duration" \notin DOMAIN rec
    \/ StatedMinutes(rec.duration) = None
    \/ StatedMinutes(rec.duration) <= SuppliedCap

C20_UnknownDurationKept ==
    (pc = "responded" /\ SuppliedCap # None) =>
        \A k \in 1..Len(result) :
            LET rec == result[k]
                kept == \E i \in 1..Len(filtered_recommendations) :
                            filtered_recommendations[i] = rec
                minutes == IF "duration" \in DOMAIN rec
                           THEN StatedMinutes(rec.duration) ELSE None
            IN  /\ (minutes = None /\ SatisfiesOthers(rec)) => kept
                /\ (~kept /\ SatisfiesOthers(rec)) => minutes > SuppliedCap
                /\ (minutes # None /\ minutes > SuppliedCap) => ~kept

\* cap 0: the items of duration 'Varies' and of 0 minutes are kept, the item
\* of 20 minutes is dropped
C20_CapZero ==
    /\ pc = "responded"
    /\ FromApi
    /\ SuppliedCap = 0
    /\ SuppliedTypes = {}
    /\ SuppliedValue("remote_testing") = PyNone
    /\ SuppliedValue("adaptive_support") = PyNone
    /\ Len(result) = 6
    /\ { filtered_recommendations[i].name : i \in 1..Len(filtered_recommendations) }
           = { Untimed.name, Instant.name }


(***************************************************************************)
(* The constraint 0                                                        *)
(***************************************************************************)

\* the duration term of a scorer that enforces every captured constraint c
EnforcedTerm(c, assessment) ==
    LET duration_minutes == FirstInt(Get(assessment, "duration", ""))
    IN  IF c # None /\ duration_minutes # None
        THEN IF duration_minutes <= c THEN DurationBonus ELSE -DurationPenalty
        ELSE 0

\* C24 as stated: the constraint 0 is enforced like a positive one. Under the
\* keyword strategy every returned record carries the score with the
\* within/over-duration term applied, and no returned record exceeds 0 minutes
\* when some candidate satisfies the constraint.
C24_ZeroEnforced ==
    (pc = "done" /\ ~caught /\ strategy = "keyword" /\ time_constraint = 0) =>
        /\ \A i \in 1..Len(result) :
               \E a \in Range(req.assessments) :
                   result[i] = WithScore(a, Min(RawScore(query, a)
                                                  - DurationTerm(query, a)
                                                  + EnforcedTerm(0, a), Scale))
        /\ Satisfying(req.assessments, 0) # {} =>
               \A i \in 1..Len(result) :
                   ~(FirstInt(Get(result[i], "duration", "")) > 0)

\* C25 as stated: the filter of the keyword strategy removes only candidates
\* whose parsed duration exceeds the constraint, so with room for every
\* candidate each one whose duration text holds no number is returned.
C25_OnlyExceedingRemoved ==
    (/\ pc = "done" /\ ~caught /\ strategy = "keyword"
     /\ Truthy(time_constraint)
     /\ req.max_results >= Len(req.assessments)) =>
        \A k \in 1..Len(req.assessments) :
            FirstInt(Get(req.assessments[k], "duration", "")) = None =>
                \E i \in 1..Len(result) :
                    result[i] = WithScore(req.assessments[k],
                                          fallback_relevance_score(query, req.assessments[k]))

(***************************************************************************)
(* The three duration parsers                                              *)
(***************************************************************************)

\* C26 as stated: for the duration text of every candidate of a request the
\* first integer of the text (the parse of the keyword scorer, the embedding
\* penalty and the keyword filter), data_processor.extract_duration and
\* utils.extract_duration_minutes give the same number of minutes.
C26_ParsersAgree ==
    pc = "responded" =>
        \A k \in 1..Len(req.assessments) :
            LET text == Get(req.assessments[k], "duration", "")
            IN  /\ FirstInt(text) = extract_duration(text)
                /\ extract_duration(text) = extract_duration_minutes(text)

(***************************************************************************)
(* Repeated and late indices of the provider                               *)
(***************************************************************************)

\* C28 as stated: from a candidate list of distinct records no strategy
\* returns a list that holds the same candidate twice.
C28_NoCandidateTwice ==
    (/\ pc = "done"
     /\ \A i, j \in 1..Len(req.assessments) :
            req.assessments[i] = req.assessments[j] => i = j) =>
        \A i, j \in 1..Len(result) : result[i] = result[j] => i = j

\* a catalog one record longer than the prompt holds
LongCatalog ==
    [k \in 1..(PromptLimit + 1) |->
        [JavaTest EXCEPT !.name = "Java test " \o Digits[(k \div 10) + 1]
                                               \o Digits[(k % 10) + 1]]]

\* the provider answers with indices around the end of the prompt
NextPrompt ==
    \/ Call([input_text : {"Sales", "Java developer"}, is_url : {FALSE},
             max_results : {1, MaxIndices}, save_to_db : {FALSE},
             assessments : {LongCatalog}])
    \/ Resolve(Pages)
    \/ LlmStep({ [kind |-> "indices", indices |-> a] :
                   a \in UNION { [1..n -> {1, PromptLimit, PromptLimit + 1,
                                           PromptLimit + 2}] : n \in 0..MaxIndices } })
    \/ EmbeddingStep({NoVec}, {NoVec})
    \/ KeywordStep
    \/ Return

SpecPrompt == InitLlm /\ [][NextPrompt]_vars

\* C29 as stated: every record the LLM strategy returns is one of the
\* candidates serialized into the prompt, the first PromptLimit of the list.
C29_ResultsFromPrompt ==
    (pc = "done" /\ strategy = "llm") =>
        \A i \in 1..Len(result) :
            \E k \in 1..Min(Len(req.assessments), PromptLimit) :
                result[i] = req.assessments[k]

(***************************************************************************)
(* The duration penalty of the embedding strategy                          *)
(***************************************************************************)

\* C30 as stated: a scored candidate whose duration exceeds the constraint
\* is present in the embedding ranking (when max_results leaves room for
\* every candidate) with a score that is at most its unpenalized similarity.
C30_PenaltyNeverRaises ==
    (/\ pc = "done" /\ strategy = "embedding"
     /\ Truthy(time_constraint)
     /\ req.max_results >= Len(req.assessments)) =>
        \A n \in 1..Len(similarities) :
            LET assessment == req.assessments[similarities[n].candidate]
            IN  FirstInt(Get(assessment, "duration", "")) > time_constraint =>
                    \E i \in 1..Len(result) :
                        /\ result[i] = WithScore(assessment, result[i].score)
                        /\ result[i].score <= similarities[n].similarity

(***************************************************************************)
(* save_query_and_recommendations statement by statement: each process     *)
(* writes in a session of its own, whose flushed rows only that session    *)
(* reads until the commit.                                                 *)
(***************************************************************************)

\* lines 160-169: the session is opened and the UserQuery is flushed; its id
\* comes from a sequence that no rollback takes back
SessionOpen(p, saves) ==
    /\ sessions[p].pc = "idle"
    /\ \E c \in saves :
         LET ids == { store.queries[k].id : k \in 1..Len(store.queries) }
                      \cup { sessions[q].query_id : q \in Procs }
             user_query == [id |-> 1 + CHOOSE m \in ids : \A n \in ids : n <= m,
                            query_text |-> c.query_text,
                            query_type |-> IF c.is_url THEN "url" ELSE "text",
                            is_url |-> c.is_url]
         IN  /\ sessions' = [sessions EXCEPT ![p] =
                 [pc |-> "loop", query_text |-> c.query_text, is_url |-> c.is_url,
                  recommendations |-> c.recommendations, i |-> 1,
                  query_id |-> user_query.id, found |-> 0,
                  flushed |-> [EmptyStore EXCEPT !.queries = <<user_query>>],
                  returned |-> "none"]]
             /\ user_query.id <= MaxSaves
    /\ UNCHANGED <<apiKey, shl_assessments_json, store, pc, req, callVars, filtered_recommendations, recent>>

\* line 174: the lookup by name, over the committed rows and the rows this
\* session flushed; found is the id of the record, 0 for None
SessionCheck(p) ==
    LET s == sessions[p]
        rows == store.assessments \o s.flushed.assessments
    IN  /\ s.pc = "loop"
        /\ s.i <= Len(s.recommendations)
        /\ ~SaveRaises(<<s.recommendations[s.i]>>)
        /\ sessions' = [sessions EXCEPT ![p].pc = "checked",
                 ![p].found = IF HasAssessment(rows, s.recommendations[s.i]["name"])
                              THEN FirstByName(rows, s.recommendations[s.i]["name"]).id
                              ELSE 0]
        /\ UNCHANGED <<apiKey, shl_assessments_json, store, pc, req, callVars, filtered_recommendations,
                       recent>>

\* lines 177-189: the Assessment is added and flushed when the lookup found
\* none, then the QueryRecommendation is added
SessionInsert(p) ==
    LET s == sessions[p]
        rec == s.recommendations[s.i]
        ids == { store.assessments[k].id : k \in 1..Len(store.assessments) }
                 \cup UNION { { sessions[q].flushed.assessments[k].id :
                                  k \in 1..Len(sessions[q].flushed.assessments) } :
                              q \in Procs }
                 \cup {0}
        assessment_id == IF s.found # 0 THEN s.found
                         ELSE 1 + CHOOSE m \in ids : \A n \in ids : n <= m
        recommendation == [query_id |-> s.query_id,
                           assessment_id |-> assessment_id,
                           relevance_score |-> Get(rec, "score", 0),
                           rank |-> RankOf(s.i)]
    IN  /\ s.pc = "checked"
        /\ sessions' = [sessions EXCEPT
                 ![p].pc = "loop",
                 ![p].i = s.i + 1,
                 ![p].flushed.assessments =
                     IF s.found # 0 THEN @ ELSE Append(@, from_dict(rec, assessment_id)),
                 ![p].flushed.recommendations = Append(@, recommendation)]
        /\ UNCHANGED <<apiKey, shl_assessments_json, store, pc, req, callVars, filtered_recommendations,
                       recent>>

\* lines 191-192: db.commit() makes the flushed rows part of the tables
SessionCommit(p) ==
    LET s == sessions[p]
    IN  /\ s.pc = "loop"
        /\ s.i > Len(s.recommendations)
        /\ store' = [assessments |-> store.assessments \o s.flushed.assessments,
                     queries |-> store.queries \o s.flushed.queries,
                     recommendations |-> store.recommendations
                                           \o s.flushed.recommendations]
        /\ sessions' = [sessions EXCEPT ![p].pc = "idle",
                                        ![p].flushed = EmptyStore,
                                        ![p].returned = "query"]
        /\ UNCHANGED <<apiKey, shl_assessments_json, pc, req, callVars, filtered_recommendations, recent>>

\* the flushed rows stay in the tables
RollbackKeepsFlushed(st, flushed) ==
    [assessments |-> st.assessments \o flushed.assessments,
     queries |-> st.queries \o flushed.queries,
     recommendations |-> st.recommendations \o flushed.recommendations]

\* what db.rollback() makes of the tables, given the rows the session flushed
Rollback(st, flushed) == st

\* lines 193-196: a statement of the try block raises (rec["name"], a query,
\* a flush or the commit, at any point of the session); the handler rolls
\* back and the function returns None
SessionFail(p) ==
    LET s == sessions[p]
    IN  /\ s.pc \in {"loop", "checked"}
        /\ store' = Rollback(store, s.flushed)
        /\ sessions' = [sessions EXCEPT ![p].pc = "idle",
                                        ![p].flushed = EmptyStore,
                                        ![p].returned = "None"]
        /\ UNCHANGED <<apiKey, shl_assessments_json, pc, req, callVars, filtered_recommendations, recent>>

\* two processes save lists that share names with each other and the catalog
NextSessions ==
    \E p \in Procs :
        \/ SessionOpen(p, [query_text : {"Java developer"}, is_url : {FALSE},
                           recommendations :
                               { <<WithScore(Verbal, 400), WithScore(JavaRetake, 350)>>,
                                 <<JavaTest, JavaTest>>,
                                 <<WithScore(Verbal, 400), Nameless>> }])
        \/ SessionCheck(p)
        \/ SessionInsert(p)
        \/ SessionCommit(p)
        \/ SessionFail(p)

SpecSessions == InitScore /\ [][NextSessions]_vars

\* the ids of the rows that refer to an Assessment record
QueriesOf(st, assessment) ==
    { st.recommendations[k].query_id :
        k \in { n \in 1..Len(st.recommendations) :
                  st.recommendations[n].assessment_id = assessment.id } }

\* C21: two Assessment records of one name come from two save calls that
\* overlapped, never from one call: each of the two records is referred to by
\* a query the other query is not, because each call's lookup found no record
\* of the name before the other call's insert was committed.
C21_DuplicateNeedsTwoSaves ==
    \A i, j \in 1..Len(store.assessments) :
        (i # j /\ store.assessments[i].name = store.assessments[j].name) =>
            \E q1 \in QueriesOf(store, store.assessments[i]) :
                \E q2 \in QueriesOf(store, store.assessments[j]) : q1 # q2

\* both calls committed, each with a record of its own for the name they share
C21_TwoRecordsOneName ==
    /\ \A p \in Procs : sessions[p].returned = "query"
    /\ Len(store.queries) = 2
    /\ \E i, j \in 1..Len(store.assessments) :
           /\ i # j
           /\ store.assessments[i].name = store.assessments[j].name
           /\ store.assessments[i].name = JavaTest.name

\* C27: after a save call failed part-way and returned None, nothing it
\* created remains: no UserQuery and no QueryRecommendation of its query id,
\* no row still flushed, and no Assessment record that no committed query
\* refers to (the tables start empty here).
C27_FailedSaveLeavesNothing ==
    \A p \in Procs :
        sessions[p].returned = "None" =>
            /\ sessions[p].flushed = EmptyStore
            /\ \A k \in 1..Len(store.queries) :
                   store.queries[k].id # sessions[p].query_id
            /\ \A k \in 1..Len(store.recommendations) :
                   store.recommendations[k].query_id # sessions[p].query_id
            /\ \A k \in 1..Len(store.assessments) :
                   QueriesOf(store, store.assessments[k]) # {}

\* the only call so far failed on its second recommendation, after the query,
\* an Assessment and a row had been flushed
C27_FailedOnSecond ==
    \E p \in Procs :
        /\ sessions[p].returned = "None"
        /\ sessions[p].i = 2
        /\ sessions[p].recommendations[2] = Nameless
        /\ sessions[p].query_id = 1
        /\ store = EmptyStore

(***************************************************************************)
(* The catalog a request is scored against                                 *)
(***************************************************************************)

\* api.load_assessment_data: init_db, then the rows of the table (to_dict
\* gives the keys the row has), else the cache file, else the scrape, which
\* is written to the cache file.  A missing file makes init_db print and
\* return; an empty scrape raises.
load_assessment_data(st, file, scraped) ==
    LET filled == IF file.exists THEN init_db(st, file.data) ELSE st
        db_assessments == filled.assessments
    IN  IF db_assessments # <<>>
        THEN [store |-> filled, file |-> file, assessments |-> db_assessments,
              raised |-> FALSE]
        ELSE IF file.exists
        THEN [store |-> filled, file |-> file, assessments |-> file.data,
              raised |-> FALSE]
        ELSE IF scraped = <<>>
        THEN [store |-> filled, file |-> file, assessments |-> <<>>,
              raised |-> TRUE]
        ELSE [store |-> filled, file |-> [exists |-> TRUE, data |-> scraped],
              assessments |-> scraped, raised |-> FALSE]

\* api.get_recommendation, lines 92-109: the catalog is loaded and
\* get_recommendations is called with it and save_to_db=True
LoadAndCall(texts, scrapes) ==
    /\ pc = "idle"
    /\ \E text \in texts, scraped \in scrapes :
         LET l == load_assessment_data(store, shl_assessments_json, scraped)
         IN  /\ ~l.raised
             /\ store' = l.store
             /\ shl_assessments_json' = l.file
             /\ req' = [input_text |-> text, is_url |-> FALSE,
                        max_results |-> CallerMaxResults, save_to_db |-> TRUE,
                        assessments |-> l.assessments, facets |-> NoFacets]
    /\ pc' = "resolve"
    /\ UNCHANGED callerVars
    /\ UNCHANGED <<apiKey, sessions, callVars>>

NextLoad ==
    \/ /\ Len(store.queries) < MaxSaves
       /\ LoadAndCall({"Java developer, remote", "Reasoning for an analyst within 30"},
                      {<<>>, CallerCatalog})
    \/ Resolve(Pages)
    \/ LlmStep(ResponsesStore)
    \/ EmbeddingStep({NoVec}, {NoVec})
    \/ KeywordStep
    \/ Save
    \/ Return
    \/ ApiFilter
    \/ NextRequest

SpecLoad == InitApi /\ [][NextLoad]_vars

\* the names of the records of a list
NamesOf(assessments) == { assessments[k].name : k \in 1..Len(assessments) }

\* C22: every request is scored against the same full catalog, whatever
\* earlier requests persisted.
C22_SameCatalog ==
    pc # "idle" => NamesOf(req.assessments) = NamesOf(CallerCatalog)

(***************************************************************************)
(* Copies of the candidates                                                *)
(***************************************************************************)

\* C23: the call leaves the candidates without a score key, and every record
\* it returns is a new dict, never the same object as a candidate.
C23_ReturnsCopies ==
    (pc = "done" /\ outcome = "returned" /\ result = produced) =>
        /\ \A k \in 1..Len(req.assessments) :
               "score" \notin DOMAIN req.assessments[k]
        /\ \A k \in 1..Len(objects) : objects[k] = 0

=============================================================================
